---- MODULE Spec2Model ----
(***************************************************************************)
(* The monorepo pack handler (ceres MonoRepo), the merge-request merge and *)
(* the tree-update engine (gateway MonorepoService) over the object store. *)
(*                                                                         *)
(* Every handler is a sequence of steps, one per storage call (the         *)
(* suspension points of the async code).  A step is a pure operator on the *)
(* pair (store, locals of the call).  Spec runs each handler to its end in *)
(* one action; SpecConc interleaves the steps of concurrent calls.         *)
(***************************************************************************)
EXTENDS Integers, Sequences, FiniteSets, TLC

VARIABLES store, last, procs, mq, libra

vars == <<store, last, procs, mq, libra>>

(* ------------------------------ bounds -------------------------------- *)

\* operations run in a behaviour of Spec
MaxOps == 4
\* concurrent callers and the calls they start in a behaviour of SpecConc
MaxProcs == 2
MaxConcOps == 2
\* messages sent through the queue, and the largest id persisted before startup
MaxSends == 3
MaxLatest == 2
\* switch commands run in a behaviour of SpecSwitch
MaxSwitches == 3
\* characters of a pushed hash (40 in git; more than ShortLen is what matters)
HashLen == 7

(* --------------------------- program constants ------------------------ *)

\* entry_list.len() >= 1000
BatchSize == 1000
\* &from[..6], &to[..6]
ShortLen == 6

\* String::new()
EmptyStr == <<"">>

(* ------------------------------ Option -------------------------------- *)

None == <<>>
Some(x) == <<x>>
IsSome(o) == Len(o) > 0
Unwrap(o) == o[1]

(* ------------------------------ objects ------------------------------- *)

\* A hash pushed by a client is its string of hex digits: the n-th pushed
\* hash starts and ends with the digit n.
RECURSIVE Repeat(_, _)
Repeat(d, k) == IF k = 0 THEN <<>> ELSE <<d>> \o Repeat(d, k - 1)
Hex(n) == <<"hex", <<n>> \o Repeat(10, HashLen - 2) \o <<n>>>>
ZeroHash == <<"hex", Repeat(0, HashLen)>>

BlobId(n) == <<"blob", n>>
TreeItem(mode, name, id) == [mode |-> mode, name |-> name, id |-> id]
\* Tree::from_tree_items: the id is the hash of the items (content addressing)
TreeId(items) == <<"tree", items>>
from_tree_items(items) == [id |-> TreeId(items), tree_items |-> items]

\* Commit ids of commits the server builds are the hash of their content
CommitId(tree_id, parents, author, committer, message) ==
    <<"commit", tree_id, parents, author, committer, message>>
Commit_new(author, committer, tree_id, parents, message) ==
    [id |-> CommitId(tree_id, parents, author, committer, message),
     tree_id |-> tree_id, parent_commit_ids |-> parents,
     author |-> author, committer |-> committer, message |-> message]
Commit_from_tree_id(tree_id, parents, message) ==
    Commit_new("mega", "mega", tree_id, parents, message)

\* a tree row of the store: the tree and the commit it is stamped with
TreeRow(tree, commit_id) ==
    [tree_id |-> tree.id, tree_items |-> tree.tree_items, commit_id |-> commit_id]

(* ------------------------- the initial monorepo ----------------------- *)

Txyz == from_tree_items(<<TreeItem("Blob", "c", BlobId("c"))>>)
Txy == from_tree_items(<<TreeItem("Tree", "z", Txyz.id)>>)
Txz == from_tree_items(<<TreeItem("Blob", "d", BlobId("d"))>>)
Tx == from_tree_items(<<TreeItem("Tree", "y", Txy.id), TreeItem("Tree", "z", Txz.id)>>)
Ty == from_tree_items(<<TreeItem("Blob", "e", BlobId("e"))>>)
RootTree == from_tree_items(<<TreeItem("Tree", "x", Tx.id), TreeItem("Tree", "y", Ty.id),
                              TreeItem("Blob", "f", BlobId("f"))>>)
InitCommit == Commit_from_tree_id(RootTree.id, <<>>, <<"init">>)

RootPath == <<>>

\* the state init_monorepo leaves, with the directories x, x/y, x/y/z, x/z, y
init_monorepo ==
    [refs |-> <<[path |-> RootPath, ref_commit_hash |-> InitCommit.id,
                 ref_tree_hash |-> RootTree.id]>>,
     commits |-> {InitCommit},
     trees |-> {TreeRow(t, InitCommit.id) : t \in {RootTree, Tx, Ty, Txy, Txz, Txyz}},
     blobs |-> {BlobId("c"), BlobId("d"), BlobId("e"), BlobId("f")},
     mrs |-> <<>>,
     convs |-> <<>>,
     next_mr_id |-> 1]

(* ------------------------------ inputs -------------------------------- *)

\* the paths of the calls of Spec: "/", three directories and a missing one
PathSet == {RootPath, <<"x">>, <<"x", "y">>, <<"x", "y", "z">>, <<"n">>}

T1 == from_tree_items(<<TreeItem("Blob", "g", BlobId("g"))>>)
T2 == from_tree_items(<<TreeItem("Blob", "h", BlobId("h"))>>)

PushedCommit(n, tree, parents) ==
    [id |-> Hex(n), tree_id |-> tree.id, parent_commit_ids |-> parents,
     author |-> "dev", committer |-> "dev", message |-> <<"push", n>>]

CommitEntry(c) == [obj_type |-> "Commit", id |-> c.id, obj |-> c]
TreeEntry(t) == [obj_type |-> "Tree", id |-> t.id, obj |-> t]
BlobEntry(n) == [obj_type |-> "Blob", id |-> BlobId(n), obj |-> [data |-> n]]

\* the pushes a client makes: the new tip and the decoded pack; the first
\* holds one commit, the second two
Pushes ==
    {[to_hash |-> Hex(1),
      pack |-> <<CommitEntry(PushedCommit(1, T1, <<>>)), TreeEntry(T1), BlobEntry("g")>>],
     [to_hash |-> Hex(2),
      pack |-> <<CommitEntry(PushedCommit(3, T1, <<>>)),
                 CommitEntry(PushedCommit(2, T2, <<Hex(3)>>)),
                 TreeEntry(T1), TreeEntry(T2), BlobEntry("g"), BlobEntry("h")>>]}

(* ------------------------- sequences of rows -------------------------- *)

\* iter().position(...) over the indexes that match: the first, or None
position(idx) ==
    IF idx = {} THEN None ELSE Some(CHOOSE i \in idx : \A j \in idx : i <= j)

\* iter().find(...) over the indexes that match: the first element, or None
find(s, idx) ==
    LET i == position(idx) IN IF IsSome(i) THEN Some(s[Unwrap(i)]) ELSE None

\* the indexes of the tree items called name
Named(items, name) == {i \in 1..Len(items) : items[i].name = name}

RemoveAt(s, i) == SubSeq(s, 1, i - 1) \o SubSeq(s, i + 1, Len(s))

IsPrefix(p, q) == Len(p) <= Len(q) /\ SubSeq(q, 1, Len(p)) = p

(* ------------------------- Object Store Facade ------------------------ *)

get_ref(st, path) ==
    find(st.refs, {i \in 1..Len(st.refs) : st.refs[i].path = path})

save_ref(st, path, commit_id, tree_id) ==
    [st EXCEPT !.refs = Append(@, [path |-> path, ref_commit_hash |-> commit_id,
                                    ref_tree_hash |-> tree_id])]

update_ref(st, ref) ==
    LET i == position({j \in 1..Len(st.refs) : st.refs[j].path = ref.path})
    IN IF IsSome(i) THEN [st EXCEPT !.refs[Unwrap(i)] = ref] ELSE st

remove_ref(st, ref) ==
    LET i == position({j \in 1..Len(st.refs) : st.refs[j] = ref})
    IN IF IsSome(i) THEN [st EXCEPT !.refs = RemoveAt(@, Unwrap(i))] ELSE st

RECURSIVE WithoutPrefix(_, _)
\* the refs whose path does not start with path
WithoutPrefix(refs, path) ==
    IF refs = <<>> THEN <<>>
    ELSE (IF IsPrefix(path, Head(refs).path) THEN <<>> ELSE <<Head(refs)>>)
         \o WithoutPrefix(Tail(refs), path)

\* "remove refs start with path"
remove_refs(st, path) == [st EXCEPT !.refs = WithoutPrefix(@, path)]

get_commit_by_hash(st, hash) ==
    IF \E c \in st.commits : c.id = hash
    THEN Some(CHOOSE c \in st.commits : c.id = hash) ELSE None

save_mega_commits(st, cs) ==
    [st EXCEPT !.commits = @ \cup {c \in cs : \A d \in st.commits : d.id # c.id}]

get_tree_by_hash(st, hash) ==
    IF \E t \in st.trees : t.tree_id = hash
    THEN LET row == CHOOSE t \in st.trees : t.tree_id = hash
         IN Some([id |-> row.tree_id, tree_items |-> row.tree_items])
    ELSE None

\* batch_save_model of tree rows: a row whose id is stored already is kept
save_trees(st, rows) ==
    [st EXCEPT !.trees = @ \cup {r \in rows : \A t \in st.trees : t.tree_id # r.tree_id}]

RECURSIVE batch_save_entries(_, _)
\* storage.save_entry: each entry goes to the table of its type
batch_save_entries(st, entries) ==
    IF entries = <<>> THEN st
    ELSE LET e == Head(entries)
             st1 == CASE e.obj_type = "Commit" -> save_mega_commits(st, {e.obj})
                      [] e.obj_type = "Tree" -> save_trees(st, {TreeRow(e.obj, EmptyStr)})
                      [] OTHER -> [st EXCEPT !.blobs = @ \cup {e.id}]
         IN batch_save_entries(st1, Tail(entries))

get_open_mr(st, path) ==
    find(st.mrs, {i \in 1..Len(st.mrs) : st.mrs[i].path = path /\ st.mrs[i].status = "Open"})

get_open_mr_by_id(st, id) ==
    find(st.mrs, {i \in 1..Len(st.mrs) : st.mrs[i].id = id /\ st.mrs[i].status = "Open"})

save_mr(st, mr) == [st EXCEPT !.mrs = Append(@, mr)]

update_mr(st, mr) ==
    LET i == position({j \in 1..Len(st.mrs) : st.mrs[j].id = mr.id})
    IN IF IsSome(i) THEN [st EXCEPT !.mrs[Unwrap(i)] = mr] ELSE st

add_mr_conversation(st, mr_id, user_id, conv_type, comment) ==
    [st EXCEPT !.convs = Append(@, [mr_id |-> mr_id, user_id |-> user_id,
                                     conv_type |-> conv_type, comment |-> comment])]

add_mr_comment(st, mr_id, user_id, comment) ==
    add_mr_conversation(st, mr_id, user_id, "Comment", comment)

(* --------------------------- MergeRequest ----------------------------- *)

\* MergeRequest { path, from_hash, to_hash, ..Default::default() }
MergeRequest(id, path, from_hash, to_hash) ==
    [id |-> id, path |-> path, from_hash |-> from_hash, to_hash |-> to_hash,
     status |-> "Open"]

close(mr) == [mr EXCEPT !.status = "Closed"]
merge(mr) == [mr EXCEPT !.status = "Merged"]

(* ------------------------------ calls --------------------------------- *)

\* a call has ended when its pc is one of these
FinalPcs == {"done", "panic", "cancelled"}

NoMr == MergeRequest(0, RootPath, ZeroHash, ZeroHash)

(* --------------------------- MonoRepo::unpack ------------------------- *)

UnpackStart(path, from_hash, push) ==
    [op |-> "unpack", pc |-> "unpack_get_mr", path |-> path,
     from_hash |-> from_hash, to_hash |-> push.to_hash, pack_file |-> push.pack,
     receiver |-> push.pack,
     mr |-> NoMr, mr_exist |-> FALSE, comment |-> <<>>, commit_size |-> 0,
     ret |-> "none"]

\* (the open MR of the path, true), or (a new MR not yet stored, false)
get_mr(st, l) ==
    LET mr == get_open_mr(st, l.path)
    IN IF IsSome(mr)
       THEN [st |-> st, mr |-> Unwrap(mr), mr_exist |-> TRUE]
       ELSE [st |-> [st EXCEPT !.next_mr_id = @ + 1],
             mr |-> MergeRequest(st.next_mr_id, l.path, l.from_hash, l.to_hash),
             mr_exist |-> FALSE]

\* mutant: the hashes are not cut
comment_for_force_update_full(from, to) ==
    <<"Mega updated the mr automatic from", from[2], "to", to[2]>>

comment_for_force_update(from, to) ==
    <<"Mega updated the mr automatic from", SubSeq(from[2], 1, ShortLen),
      "to", SubSeq(to[2], 1, ShortLen)>>

\* mutant: a push that repeats the Open MR's hashes is ingested
unpack_get_mr_ingest(st, l) ==
    LET g == get_mr(st, l)
        l1 == [l EXCEPT !.mr = g.mr, !.mr_exist = g.mr_exist]
    IN [st |-> g.st,
        l |-> IF g.mr_exist
              THEN IF g.mr.from_hash = l.from_hash
                   THEN IF g.mr.to_hash # l.to_hash
                        THEN [l1 EXCEPT !.comment = comment_for_force_update(g.mr.to_hash, l.to_hash),
                                        !.mr.to_hash = l.to_hash,
                                        !.pc = "unpack_force_comment"]
                        ELSE [l1 EXCEPT !.pc = "unpack_save_entry"]
                   ELSE [l1 EXCEPT !.mr = close(g.mr), !.pc = "unpack_conflict_comment"]
              ELSE [l1 EXCEPT !.pc = "unpack_save_entry"]]

\* get_mr, then the classification of the push up to its first storage call
unpack_get_mr(st, l) ==
    LET g == get_mr(st, l)
        l1 == [l EXCEPT !.mr = g.mr, !.mr_exist = g.mr_exist]
    IN [st |-> g.st,
        l |-> IF g.mr_exist
              THEN IF g.mr.from_hash = l.from_hash
                   THEN IF g.mr.to_hash # l.to_hash
                        THEN [l1 EXCEPT !.comment = comment_for_force_update(g.mr.to_hash, l.to_hash),
                                        !.mr.to_hash = l.to_hash,
                                        !.pc = "unpack_force_comment"]
                        ELSE [l1 EXCEPT !.pc = "unpack_update_mr"]
                   ELSE [l1 EXCEPT !.mr = close(g.mr), !.pc = "unpack_conflict_comment"]
              ELSE [l1 EXCEPT !.pc = "unpack_save_entry"]]

unpack_force_comment(st, l) ==
    [st |-> add_mr_comment(st, l.mr.id, 0, l.comment),
     l |-> [l EXCEPT !.pc = "unpack_save_entry"]]

\* mutant: the conflicting push is ingested all the same
unpack_conflict_comment_ingest(st, l) ==
    [st |-> add_mr_comment(st, l.mr.id, 0, <<"Mega closed MR due to conflict">>),
     l |-> [l EXCEPT !.pc = "unpack_save_entry"]]

unpack_conflict_comment(st, l) ==
    [st |-> add_mr_comment(st, l.mr.id, 0, <<"Mega closed MR due to conflict">>),
     l |-> [l EXCEPT !.pc = "unpack_update_mr"]]

CommitCount(entries) ==
    Cardinality({i \in 1..Len(entries) : entries[i].obj_type = "Commit"})

\* one storage.save_entry call of save_entry: a full batch, or what is left
save_entry(st, l) ==
    IF Len(l.receiver) >= BatchSize
    THEN LET batch == SubSeq(l.receiver, 1, BatchSize)
         IN [st |-> batch_save_entries(st, batch),
             l |-> [l EXCEPT !.receiver = SubSeq(@, BatchSize + 1, Len(@)),
                             !.commit_size = @ + CommitCount(batch)]]
    ELSE [st |-> batch_save_entries(st, l.receiver),
          l |-> [l EXCEPT !.receiver = <<>>,
                          !.commit_size = @ + CommitCount(l.receiver),
                          !.pc = IF l.mr_exist THEN "unpack_update_mr" ELSE "unpack_save_mr"]]

\* after update_mr / save_mr: the check of commit_size
unpack_after_mr(l) ==
    IF l.commit_size > 1
    THEN [l EXCEPT !.mr = close(@), !.pc = "unpack_multi_comment"]
    ELSE [l EXCEPT !.pc = "done", !.ret = "Ok"]

unpack_update_mr(st, l) ==
    [st |-> update_mr(st, l.mr), l |-> unpack_after_mr(l)]

\* mutant: the new MR is written with update_mr
unpack_save_mr_as_update(st, l) ==
    [st |-> update_mr(st, l.mr), l |-> unpack_after_mr(l)]

unpack_save_mr(st, l) ==
    [st |-> save_mr(st, l.mr), l |-> unpack_after_mr(l)]

unpack_multi_comment(st, l) ==
    [st |-> add_mr_comment(st, l.mr.id, 0, <<"Mega closed MR due to multi commit detected">>),
     l |-> [l EXCEPT !.pc = "done", !.ret = "Ok"]]

(* -------------------------- MonoRepo::full_pack ----------------------- *)

\* storage.get_obj_count_by_repo_id: the rows of the object tables (no tag
\* is stored by any call modelled)
get_obj_count_by_repo_id(st) ==
    Cardinality(st.commits) + Cardinality(st.trees) + Cardinality(st.blobs)

\* storage.get_tags_by_repo_id
get_tags_by_repo_id(st) == {}

\* the entries handed to the sender so far, by kind
NoneSent == [commits |-> {}, trees |-> {}, blobs |-> {}, tags |-> {}]

FullPackStart ==
    [op |-> "full_pack", pc |-> "pack_obj_count", obj_num |-> 0, sent |-> NoneSent,
     bids |-> {}, ret |-> "none"]

\* get_obj_count_by_repo_id, PackEncoder::new(obj_num, 0)
pack_obj_count(st, l) ==
    [st |-> st, l |-> [l EXCEPT !.obj_num = get_obj_count_by_repo_id(st),
                                !.pc = "pack_commits"]]

pack_commits(st, l) ==
    [st |-> st, l |-> [l EXCEPT !.sent.commits = {c.id : c \in st.commits},
                                !.pc = "pack_trees"]]

pack_trees(st, l) ==
    [st |-> st, l |-> [l EXCEPT !.sent.trees = {t.tree_id : t \in st.trees},
                                !.pc = "pack_blobs"]]

\* get_blobs_by_repo_id: the blob ids
pack_blobs(st, l) ==
    [st |-> st, l |-> [l EXCEPT !.bids = st.blobs, !.pc = "pack_raw_blobs"]]

\* batch_query_by_columns: the raw blobs with these ids
pack_raw_blobs(st, l) ==
    [st |-> st, l |-> [l EXCEPT !.sent.blobs = l.bids \cap st.blobs,
                                !.pc = "pack_tags"]]

\* get_tags_by_repo_id, drop(sender), encoder.encode(receiver)
pack_tags(st, l) ==
    [st |-> st, l |-> [l EXCEPT !.sent.tags = get_tags_by_repo_id(st),
                                !.pc = "done", !.ret = "Ok"]]

(* -------------------------- MonoRepo::head_hash ----------------------- *)

HeadHashStart(path) ==
    [op |-> "head_hash", pc |-> "head_get_ref", path |-> path, ref_hash |-> ZeroHash,
     tree |-> RootTree, idx |-> 1, c |-> InitCommit, ret |-> <<>>]

Panic(st, l) == [st |-> st, l |-> [l EXCEPT !.pc = "panic"]]

MEGA_BRANCH_NAME == "refs/heads/main"

\* Refs { ref_name, ref_hash, default_branch, ..Default::default() }
Refs(ref_name, ref_hash, default_branch) ==
    [ref_name |-> ref_name, ref_hash |-> ref_hash, default_branch |-> default_branch]

\* result.unwrap().into(): the stored ref as the default branch of the path
Refs_from(ref) == Refs(MEGA_BRANCH_NAME, ref.ref_commit_hash, TRUE)

\* storage.get_ref(self.path): a stored ref is returned
head_get_ref(st, l) ==
    LET result == get_ref(st, l.path)
    IN IF IsSome(result)
       THEN [st |-> st,
             l |-> [l EXCEPT !.pc = "done",
                             !.ret = <<Refs_from(Unwrap(result))>>]]
       ELSE [st |-> st, l |-> [l EXCEPT !.pc = "head_root_ref"]]

head_root_ref(st, l) ==
    LET r == get_ref(st, RootPath)
    IN IF IsSome(r)
       THEN [st |-> st, l |-> [l EXCEPT !.ref_hash = Unwrap(r).ref_commit_hash,
                                        !.pc = "head_commit"]]
       ELSE Panic(st, l)

head_commit(st, l) ==
    LET c == get_commit_by_hash(st, l.ref_hash)
    IN IF IsSome(c)
       THEN [st |-> st, l |-> [l EXCEPT !.tree = [id |-> Unwrap(c).tree_id, tree_items |-> <<>>],
                                        !.pc = "head_root_tree"]]
       ELSE Panic(st, l)

head_root_tree(st, l) ==
    LET t == get_tree_by_hash(st, l.tree.id)
    IN IF IsSome(t)
       THEN [st |-> st, l |-> [l EXCEPT !.tree = Unwrap(t), !.idx = 1,
                                        !.pc = "head_component"]]
       ELSE Panic(st, l)

\* mutant: save_ref gets the tree id where the commit id belongs
head_component_swapped(st, l) ==
    IF l.idx > Len(l.path)
    THEN LET c == Commit_from_tree_id(l.tree.id, <<>>,
                      <<"This commit was generated by mega for maintain refs">>)
         IN [st |-> save_ref(st, l.path, c.tree_id, c.id),
             l |-> [l EXCEPT !.c = c, !.pc = "head_save_commit"]]
    ELSE LET item == find(l.tree.tree_items, Named(l.tree.tree_items, l.path[l.idx]))
         IN IF IsSome(item)
            THEN LET t == get_tree_by_hash(st, Unwrap(item).id)
                 IN IF IsSome(t)
                    THEN [st |-> st, l |-> [l EXCEPT !.tree = Unwrap(t), !.idx = @ + 1]]
                    ELSE Panic(st, l)
            ELSE [st |-> st, l |-> [l EXCEPT !.pc = "done", !.ret = <<>>]]

\* mutant: the new commit is written to the ref of "/"
head_component_root(st, l) ==
    IF l.idx > Len(l.path)
    THEN LET c == Commit_from_tree_id(l.tree.id, <<>>,
                      <<"This commit was generated by mega for maintain refs">>)
         IN [st |-> update_ref(st, [path |-> RootPath, ref_commit_hash |-> c.id,
                                    ref_tree_hash |-> c.tree_id]),
             l |-> [l EXCEPT !.c = c, !.pc = "head_save_commit"]]
    ELSE LET item == find(l.tree.tree_items, Named(l.tree.tree_items, l.path[l.idx]))
         IN IF IsSome(item)
            THEN LET t == get_tree_by_hash(st, Unwrap(item).id)
                 IN IF IsSome(t)
                    THEN [st |-> st, l |-> [l EXCEPT !.tree = Unwrap(t), !.idx = @ + 1]]
                    ELSE Panic(st, l)
            ELSE [st |-> st, l |-> [l EXCEPT !.pc = "done", !.ret = <<>>]]

\* one turn of the walk over the components; after the last one, save_ref
head_component(st, l) ==
    IF l.idx > Len(l.path)
    THEN LET c == Commit_from_tree_id(l.tree.id, <<>>,
                      <<"This commit was generated by mega for maintain refs">>)
         IN [st |-> save_ref(st, l.path, c.id, c.tree_id),
             l |-> [l EXCEPT !.c = c, !.pc = "head_save_commit"]]
    ELSE LET item == find(l.tree.tree_items, Named(l.tree.tree_items, l.path[l.idx]))
         IN IF IsSome(item)
            THEN LET t == get_tree_by_hash(st, Unwrap(item).id)
                 IN IF IsSome(t)
                    THEN [st |-> st, l |-> [l EXCEPT !.tree = Unwrap(t), !.idx = @ + 1]]
                    ELSE Panic(st, l)
            ELSE [st |-> st, l |-> [l EXCEPT !.pc = "done", !.ret = <<>>]]

\* mutant: the commit of the new ref is not stored
head_save_commit_skipped(st, l) ==
    [st |-> st,
     l |-> [l EXCEPT !.pc = "done", !.ret = <<Refs(MEGA_BRANCH_NAME, l.c.id, TRUE)>>]]

head_save_commit(st, l) ==
    [st |-> save_mega_commits(st, {l.c}),
     l |-> [l EXCEPT !.pc = "done", !.ret = <<Refs(MEGA_BRANCH_NAME, l.c.id, TRUE)>>]]

(* ---------------- MonorepoService::search_tree_by_path ---------------- *)

\* a call of search_tree_by_path on its own
SearchStart(path) ==
    [op |-> "search_tree_by_path", pc |-> "search_root_ref", search_path |-> path,
     search_tree |-> RootTree, update_tree |-> <<>>, idx |-> 1,
     p_ref |-> init_monorepo.refs[1], ret |-> [ok |-> FALSE, err |-> ""]]

\* Ok((update_tree, search_tree)): the value returned, or in merge_mr the
\* locals with which update_parent_tree starts
search_returned(l) ==
    IF l.op = "search_tree_by_path"
    THEN [l EXCEPT !.pc = "done",
                   !.ret = [ok |-> TRUE, update_tree |-> l.update_tree,
                            search_tree |-> l.search_tree]]
    ELSE IF l.op = "create_monorepo_file"
    THEN [l EXCEPT !.tree_vec = l.update_tree,
                   !.new_tree = from_tree_items(Append(l.search_tree.tree_items, l.new_item)),
                   !.pc = "create_get_ref"]
    ELSE [l EXCEPT !.tree_vec = l.update_tree, !.path = l.mr.path,
                   !.target_hash = l.commit.tree_id, !.pc = "update_loop"]

\* Err(GitError::ConversionError(..)): the value returned; merge_mr and
\* create_monorepo_file unwrap it
search_failed(st, l) ==
    IF l.op = "search_tree_by_path"
    THEN [st |-> st,
          l |-> [l EXCEPT !.pc = "done",
                          !.ret = [ok |-> FALSE,
                                   err |-> "can't find target parent tree under latest commit"]]]
    ELSE Panic(st, l)

search_root_ref(st, l) ==
    LET refs == get_ref(st, RootPath)
    IN IF IsSome(refs)
       THEN [st |-> st, l |-> [l EXCEPT !.p_ref = Unwrap(refs), !.pc = "search_root_tree"]]
       ELSE Panic(st, l)

search_root_tree(st, l) ==
    LET t == get_tree_by_hash(st, l.p_ref.ref_tree_hash)
    IN IF IsSome(t)
       THEN [st |-> st, l |-> [l EXCEPT !.search_tree = Unwrap(t),
                                        !.update_tree = <<Unwrap(t)>>,
                                        !.idx = 1, !.pc = "search_component"]]
       ELSE Panic(st, l)

\* one turn of the loop over the components; the last component's tree is
\* not pushed.  An Err is unwrapped by the caller.
search_component(st, l) ==
    IF l.idx > Len(l.search_path)
    THEN [st |-> st, l |-> search_returned(l)]
    ELSE LET search_res == find(l.search_tree.tree_items,
                                Named(l.search_tree.tree_items, l.search_path[l.idx]))
         IN IF IsSome(search_res)
            THEN LET res == get_tree_by_hash(st, Unwrap(search_res).id)
                 IN IF IsSome(res)
                    THEN [st |-> st,
                          l |-> [l EXCEPT !.search_tree = Unwrap(res),
                                          !.update_tree = IF l.idx # Len(l.search_path)
                                                          THEN Append(@, Unwrap(res)) ELSE @,
                                          !.idx = @ + 1]]
                    ELSE Panic(st, l)
            ELSE search_failed(st, l)

(* ----------------- MonorepoService::update_parent_tree ---------------- *)

Front(s) == SubSeq(s, 1, Len(s) - 1)
Last(s) == s[Len(s)]

\* the caller's next step when update_parent_tree has returned
update_returned(l) ==
    IF l.op = "create_monorepo_file"
    THEN [l EXCEPT !.pc = "done", !.ret = "Ok"]
    ELSE [l EXCEPT !.pc = "merge_remove_refs"]

RECURSIVE Stamp(_, _)
\* the saved trees as rows, each stamped with p_commit_id
Stamp(trees, p_commit_id) ==
    IF trees = <<>> THEN {}
    ELSE {TreeRow(Head(trees), p_commit_id)} \cup Stamp(Tail(trees), p_commit_id)

\* one turn of the while loop up to its get_ref; when tree_vec is empty, the
\* batch save of the rewritten trees
update_loop(st, l) ==
    IF l.tree_vec = <<>>
    THEN [st |-> save_trees(st, Stamp(l.save_trees, l.p_commit_id)),
          l |-> update_returned(l)]
    ELSE IF l.path = RootPath
    THEN Panic(st, l)
    ELSE LET tree == Last(l.tree_vec)
             name == Last(l.path)
             path == Front(l.path)
             index == position(Named(tree.tree_items, name))
         IN IF ~IsSome(index)
            THEN Panic(st, l)
            ELSE LET new_tree == from_tree_items(
                                     [tree.tree_items EXCEPT ![Unwrap(index)].id = l.target_hash])
                     l1 == [l EXCEPT !.tree_vec = Front(@), !.path = path,
                                     !.target_hash = new_tree.id,
                                     !.save_trees = Append(@, new_tree)]
                     p_ref == get_ref(st, path)
                 IN IF IsSome(p_ref)
                    THEN IF path = RootPath
                         THEN LET p_commit == Commit_new(l.commit.author, l.commit.committer,
                                                  new_tree.id,
                                                  <<Unwrap(p_ref).ref_commit_hash>>,
                                                  l.commit.message)
                              IN [st |-> st,
                                  l |-> [l1 EXCEPT !.p_commit = p_commit,
                                                   !.p_commit_id = p_commit.id,
                                                   !.p_ref = [Unwrap(p_ref) EXCEPT
                                                                !.ref_commit_hash = p_commit.id,
                                                                !.ref_tree_hash = new_tree.id],
                                                   !.pc = "update_ref"]]
                         ELSE [st |-> st, l |-> [l1 EXCEPT !.p_ref = Unwrap(p_ref),
                                                           !.pc = "update_remove_ref"]]
                    ELSE [st |-> st, l |-> l1]

\* mutant: the changed ref is inserted as a new row
update_update_ref_as_save(st, l) ==
    [st |-> save_ref(st, l.p_ref.path, l.p_ref.ref_commit_hash, l.p_ref.ref_tree_hash),
     l |-> [l EXCEPT !.pc = "update_save_commit"]]

update_update_ref(st, l) ==
    [st |-> update_ref(st, l.p_ref), l |-> [l EXCEPT !.pc = "update_save_commit"]]

update_save_commit(st, l) ==
    [st |-> save_mega_commits(st, {l.p_commit}), l |-> [l EXCEPT !.pc = "update_loop"]]

update_remove_ref(st, l) ==
    [st |-> remove_ref(st, l.p_ref), l |-> [l EXCEPT !.pc = "update_loop"]]

(* ---------------------- MonorepoService::merge_mr --------------------- *)

MergeStart(mr_id) ==
    [op |-> "merge_mr", pc |-> "merge_get_mr", mr_id |-> mr_id, mr |-> NoMr,
     commit |-> InitCommit, path |-> RootPath, search_path |-> RootPath,
     search_tree |-> RootTree, update_tree |-> <<>>, idx |-> 1, tree_vec |-> <<>>,
     save_trees |-> <<>>, p_commit_id |-> EmptyStr, target_hash |-> RootTree.id,
     p_ref |-> init_monorepo.refs[1], p_commit |-> InitCommit,
     ret |-> [result |-> TRUE, err_message |-> ""]]

merge_get_mr(st, l) ==
    LET mr == get_open_mr_by_id(st, l.mr_id)
    IN IF IsSome(mr)
       THEN [st |-> st, l |-> [l EXCEPT !.mr = Unwrap(mr), !.pc = "merge_get_ref"]]
       ELSE [st |-> st, l |-> [l EXCEPT !.pc = "done",
                                        !.ret = [result |-> FALSE,
                                                 err_message |-> "Invalid mr id"]]]

merge_get_ref(st, l) ==
    LET refs == get_ref(st, l.mr.path)
    IN IF ~IsSome(refs)
       THEN Panic(st, l)
       ELSE IF l.mr.from_hash = Unwrap(refs).ref_commit_hash
       THEN [st |-> st, l |-> [l EXCEPT !.mr = merge(@), !.pc = "merge_update_mr"]]
       ELSE [st |-> st, l |-> [l EXCEPT !.pc = "done",
                                        !.ret = [result |-> FALSE,
                                                 err_message |-> "ref hash conflict"]]]

merge_update_mr(st, l) ==
    [st |-> update_mr(st, l.mr), l |-> [l EXCEPT !.pc = "merge_get_commit"]]

merge_get_commit(st, l) ==
    LET commit == get_commit_by_hash(st, l.mr.to_hash)
    IN IF IsSome(commit)
       THEN [st |-> st, l |-> [l EXCEPT !.commit = Unwrap(commit), !.pc = "merge_add_conv"]]
       ELSE Panic(st, l)

merge_add_conv(st, l) ==
    [st |-> add_mr_conversation(st, l.mr.id, 0, "Merged", <<>>),
     l |-> IF l.mr.path # RootPath
           THEN [l EXCEPT !.search_path = Front(l.mr.path), !.pc = "search_root_ref"]
           ELSE [l EXCEPT !.pc = "done"]]

\* mutant: the refs below the merged path are kept
merge_remove_refs_skipped(st, l) ==
    [st |-> st, l |-> [l EXCEPT !.pc = "done"]]

merge_remove_refs(st, l) ==
    [st |-> remove_refs(st, l.mr.path), l |-> [l EXCEPT !.pc = "done"]]

(* --------------- MonorepoService::create_monorepo_file ---------------- *)

\* converter::generate_git_keep()
generate_git_keep == [id |-> BlobId(".gitkeep")]

\* Blob::from_content
Blob_from_content(content) == [id |-> BlobId(content)]

CreateFileInfo(path, name, is_directory, content) ==
    [path |-> path, name |-> name, is_directory |-> is_directory, content |-> content]

\* the call up to its first storage call, with new_item when it is a directory
CreateStart(file_info) ==
    [op |-> "create_monorepo_file",
     pc |-> IF file_info.is_directory THEN "search_root_ref" ELSE "create_save_mega_blob",
     path |-> file_info.path, name |-> file_info.name, content |-> file_info.content,
     new_item |-> IF file_info.is_directory
                  THEN TreeItem("Tree", file_info.name,
                           from_tree_items(<<TreeItem("Blob", ".gitkeep",
                                                      generate_git_keep.id)>>).id)
                  ELSE TreeItem("Blob", file_info.name,
                                Blob_from_content(file_info.content).id),
     new_tree |-> RootTree, commit |-> InitCommit,
     search_path |-> file_info.path, search_tree |-> RootTree, update_tree |-> <<>>,
     idx |-> 1, tree_vec |-> <<>>, save_trees |-> <<>>, p_commit_id |-> EmptyStr,
     target_hash |-> RootTree.id, p_ref |-> init_monorepo.refs[1],
     p_commit |-> InitCommit, ret |-> "none"]

\* batch_save_model of the mega_blob row
create_save_mega_blob(st, l) ==
    [st |-> [st EXCEPT !.blobs = @ \cup {Blob_from_content(l.content).id}],
     l |-> [l EXCEPT !.pc = "create_save_raw_blob"]]

\* batch_save_model of the raw_blob row
create_save_raw_blob(st, l) ==
    [st |-> [st EXCEPT !.blobs = @ \cup {Blob_from_content(l.content).id}],
     l |-> [l EXCEPT !.pc = "search_root_ref"]]

create_get_ref(st, l) ==
    LET refs == get_ref(st, RootPath)
    IN IF IsSome(refs)
       THEN [st |-> st,
             l |-> [l EXCEPT !.commit = Commit_from_tree_id(l.new_tree.id,
                                            <<Unwrap(refs).ref_commit_hash>>,
                                            <<"create file", l.name, "commit">>),
                             !.pc = "create_save_tree"]]
       ELSE Panic(st, l)

\* batch_save_model of the new tree, then update_parent_tree starts
create_save_tree(st, l) ==
    [st |-> save_trees(st, {TreeRow(l.new_tree, EmptyStr)}),
     l |-> [l EXCEPT !.target_hash = l.commit.tree_id, !.save_trees = <<>>,
                     !.p_commit_id = EmptyStr, !.pc = "update_loop"]]

(* ---------------------- MonoRepo::update_refs ------------------------- *)

\* "do nothing in monorepo because need mr to handle refs"
UpdateRefsStart == [op |-> "update_refs", pc |-> "done", ret |-> "Ok"]

(* ------------------------------- steps -------------------------------- *)

\* the next step of a call that has not ended
Step(st, l) ==
    CASE l.pc = "unpack_get_mr" -> unpack_get_mr(st, l)
      [] l.pc = "unpack_force_comment" -> unpack_force_comment(st, l)
      [] l.pc = "unpack_conflict_comment" -> unpack_conflict_comment(st, l)
      [] l.pc = "unpack_save_entry" -> save_entry(st, l)
      [] l.pc = "unpack_update_mr" -> unpack_update_mr(st, l)
      [] l.pc = "unpack_save_mr" -> unpack_save_mr(st, l)
      [] l.pc = "unpack_multi_comment" -> unpack_multi_comment(st, l)
      [] l.pc = "head_get_ref" -> head_get_ref(st, l)
      [] l.pc = "head_root_ref" -> head_root_ref(st, l)
      [] l.pc = "head_commit" -> head_commit(st, l)
      [] l.pc = "head_root_tree" -> head_root_tree(st, l)
      [] l.pc = "head_component" -> head_component(st, l)
      [] l.pc = "head_save_commit" -> head_save_commit(st, l)
      [] l.pc = "merge_get_mr" -> merge_get_mr(st, l)
      [] l.pc = "merge_get_ref" -> merge_get_ref(st, l)
      [] l.pc = "merge_update_mr" -> merge_update_mr(st, l)
      [] l.pc = "merge_get_commit" -> merge_get_commit(st, l)
      [] l.pc = "merge_add_conv" -> merge_add_conv(st, l)
      [] l.pc = "search_root_ref" -> search_root_ref(st, l)
      [] l.pc = "search_root_tree" -> search_root_tree(st, l)
      [] l.pc = "search_component" -> search_component(st, l)
      [] l.pc = "update_loop" -> update_loop(st, l)
      [] l.pc = "update_ref" -> update_update_ref(st, l)
      [] l.pc = "update_save_commit" -> update_save_commit(st, l)
      [] l.pc = "update_remove_ref" -> update_remove_ref(st, l)
      [] l.pc = "merge_remove_refs" -> merge_remove_refs(st, l)
      [] l.pc = "pack_obj_count" -> pack_obj_count(st, l)
      [] l.pc = "pack_commits" -> pack_commits(st, l)
      [] l.pc = "pack_trees" -> pack_trees(st, l)
      [] l.pc = "pack_blobs" -> pack_blobs(st, l)
      [] l.pc = "pack_raw_blobs" -> pack_raw_blobs(st, l)
      [] l.pc = "pack_tags" -> pack_tags(st, l)
      [] l.pc = "create_save_mega_blob" -> create_save_mega_blob(st, l)
      [] l.pc = "create_save_raw_blob" -> create_save_raw_blob(st, l)
      [] l.pc = "create_get_ref" -> create_get_ref(st, l)
      [] l.pc = "create_save_tree" -> create_save_tree(st, l)

RECURSIVE Run(_, _)
\* a call run to its end without interruption
Run(st, l) ==
    IF l.pc \in FinalPcs THEN [st |-> st, l |-> l]
    ELSE LET r == Step(st, l) IN Run(r.st, r.l)

(* ---------------------------- MessageQueue ---------------------------- *)

\* MQ before init_mq has run: the latest persisted message id, if any
MqUnset(latest) ==
    [set |-> FALSE, latest |-> latest, cur_id |-> 0, channel |-> <<>>, mcache |-> <<>>,
     loop_msg |-> None, spawned |-> <<>>,
     senders |-> [p \in 1..MaxProcs |-> [pc |-> "idle", id |-> 0]], sends |-> 0]

\* the queue of a process that never calls init_mq
NoMq == MqUnset(None)

\* mutant: the counter starts at the id of the latest persisted message
init_seq_latest(latest) == IF IsSome(latest) THEN Unwrap(latest) ELSE 1

\* match get_latest_message() { Some(model) => model.id + 1, None => 1 }
init_seq(latest) == IF IsSome(latest) THEN Unwrap(latest) + 1 ELSE 1

\* MessageQueue::new(12, seq, ctx), mq.start(), MQ.set(mq)
init_mq(q) == [q EXCEPT !.set = TRUE, !.cur_id = init_seq(q.latest)]

\* AtomicI64::fetch_add(1): the value before, and the counter after
fetch_add(q, p) ==
    [q EXCEPT !.senders[p] = [pc |-> "send", id |-> q.cur_id],
              !.cur_id = @ + 1, !.sends = @ + 1]

\* self.sender.send(Message { id, create_time, evt })
sender_send(q, p) ==
    [q EXCEPT !.channel = Append(@, [id |-> q.senders[p].id]),
              !.senders[p] = [pc |-> "idle", id |-> 0]]

\* MQ.get().unwrap() before MQ is set: the calling thread panics
get_mq(q, p) == [q EXCEPT !.senders[p] = [pc |-> "panic", id |-> 0]]

\* mc.add(stored) of the message cache: the message is kept, and the call
\* returns
mc_add(cache, msg) == Append(cache, msg)

\* receiver.recv() and mc.add(stored) of the event loop
recv(q) ==
    [q EXCEPT !.channel = Tail(@), !.mcache = mc_add(@, Head(q.channel)),
              !.loop_msg = Some(Head(q.channel))]

\* mutant: the event loop goes on to the next message without rt.spawn
rt_spawn_skipped(q) == [q EXCEPT !.loop_msg = None]

\* rt.spawn(async move { msg.evt.process().await }): the message is handed
\* to the worker runtime and the loop goes back to recv
rt_spawn(q) == [q EXCEPT !.spawned = Append(@, Unwrap(q.loop_msg)), !.loop_msg = None]

(* ---------------------------- libra switch ---------------------------- *)

\* SHA1 and its string of hex digits
SHA1_from_str(s) == <<"sha1", s>>
to_string(hash) == hash[2]

\* the objects of the local repository: two commits whose hashes start
\* alike, the tree of both, and a blob
CommitA == [hash |-> SHA1_from_str(<<"c", "0", "a">>), obj_type |-> "Commit",
            tree_id |-> SHA1_from_str(<<"d", "1">>)]
CommitB == [hash |-> SHA1_from_str(<<"c", "0", "b">>), obj_type |-> "Commit",
            tree_id |-> SHA1_from_str(<<"d", "1">>)]
TreeD == [hash |-> SHA1_from_str(<<"d", "1">>), obj_type |-> "Tree", tree_id |-> ZeroHash]
BlobE == [hash |-> SHA1_from_str(<<"e", "2">>), obj_type |-> "Blob", tree_id |-> ZeroHash]
Objects == {CommitA, CommitB, TreeD, BlobE}

\* the branches stored: name and commit
Branches ==
    {[name |-> "master", commit |-> Some(to_string(CommitA.hash))],
     [name |-> "dev", commit |-> Some(to_string(CommitB.hash))]}

\* ClientStorage::search: the hashes of the objects whose hex string starts
\* with the argument
search(commit_base) ==
    {o.hash : o \in {x \in Objects : IsPrefix(commit_base, to_string(x.hash))}}

\* ClientStorage::is_object_type: the stored object has this type
is_object_type(hash, obj_type) ==
    \E o \in Objects : o.hash = hash /\ o.obj_type = obj_type

\* load_object::<T>: the object when it is stored with the type T
load_object(hash, obj_type) ==
    IF is_object_type(hash, obj_type)
    THEN Some(CHOOSE o \in Objects : o.hash = hash)
    ELSE None

\* reference::Model::find_branch_by_name
find_branch_by_name(name) ==
    IF \E b \in Branches : b.name = name
    THEN Some(CHOOSE b \in Branches : b.name = name)
    ELSE None

Ok(val) == [ok |-> TRUE, val |-> val, err |-> <<>>]
Err(msg) == [ok |-> FALSE, val |-> ZeroHash, err |-> msg]

get_commit_base(commit_base) ==
    LET commits == search(commit_base)
    IN IF commits = {} THEN Err(<<"fatal: invalid reference:", commit_base>>)
       ELSE IF Cardinality(commits) > 1
       THEN Err(<<"fatal: ambiguous argument:", commit_base>>)
       ELSE LET c == CHOOSE h \in commits : TRUE
            IN IF is_object_type(c, "Commit")
               THEN Err(<<"fatal: reference is not a commit:", commit_base>>)
               ELSE Ok(c)

\* SwitchArgs without --create
SwitchArgs(branch, detach) == [branch |-> branch, detach |-> detach]

\* the repository of a process that runs no switch command
NoLibra ==
    [head |-> [name |-> Some("master"), commit |-> None], status |-> "clean",
     worktree |-> TreeD.hash, n |-> 0,
     pre |-> [name |-> Some("master"), commit |-> None],
     l |-> [args |-> SwitchArgs(None, FALSE), pc |-> "done", err |-> <<>>]]

\* the command has returned after eprintln!(msg), or without a message
Returned(lib, msg) == [lib EXCEPT !.l.pc = "done", !.l.err = msg]

\* an unwrap has failed: the process ends in a panic
Panicked(lib) == [lib EXCEPT !.l.pc = "panic"]

\* restore_to_commit, then HEAD is set to the commit
switch_to_commit(lib, commit_hash) ==
    LET commit == load_object(commit_hash, "Commit")
    IN IF ~IsSome(commit) THEN Panicked(lib)
       ELSE LET tree == load_object(Unwrap(commit).tree_id, "Tree")
            IN IF ~IsSome(tree) THEN Panicked(lib)
               ELSE Returned([lib EXCEPT !.worktree = Unwrap(tree).hash,
                                         !.head = [name |-> None,
                                                   commit |-> Some(to_string(commit_hash))]],
                             <<>>)

\* restore_to_commit of the branch's commit, then HEAD is set to the branch
switch_to_branch(lib, branch_name) ==
    LET target_branch == find_branch_by_name(branch_name)
    IN IF ~IsSome(target_branch)
       THEN Returned(lib, <<"fatal: branch not found", branch_name>>)
       ELSE LET commit_id == SHA1_from_str(Unwrap(Unwrap(target_branch).commit))
                commit == load_object(commit_id, "Commit")
            IN IF ~IsSome(commit) THEN Panicked(lib)
               ELSE LET tree == load_object(Unwrap(commit).tree_id, "Tree")
                    IN IF ~IsSome(tree) THEN Panicked(lib)
                       ELSE Returned([lib EXCEPT !.worktree = Unwrap(tree).hash,
                                                 !.head = [name |-> Some(branch_name),
                                                           commit |-> None]],
                                     <<>>)

\* switch::execute with args.create = None
execute(lib0, args) ==
    LET lib == [lib0 EXCEPT !.n = @ + 1, !.pre = lib0.head,
                            !.l = [args |-> args, pc |-> "run", err |-> <<>>]]
    IN IF lib.status = "unstaged"
       THEN Returned(lib, <<"fatal: uncommitted changes, can't switch branch">>)
       ELSE IF lib.status = "staged"
       THEN Returned(lib, <<"fatal: unstaged changes, can't switch branch">>)
       ELSE IF ~IsSome(args.branch) THEN Panicked(lib)
       ELSE IF args.detach
       THEN LET commit_base == get_commit_base(Unwrap(args.branch))
            IN IF ~commit_base.ok
               THEN Panicked(lib)
               ELSE switch_to_commit(lib, commit_base.val)
       ELSE switch_to_branch(lib, Unwrap(args.branch))

(* --------------------------- specifications --------------------------- *)

Procs == 1..MaxProcs

Idle == [op |-> "none", pc |-> "done"]

\* the from_hash a client sends: none, or the hash it was told for the path
FromHashes(st, path) ==
    {ZeroHash} \cup {st.refs[i].ref_commit_hash : i \in {j \in 1..Len(st.refs) : st.refs[j].path = path}}

\* the MR ids a caller names: the stored ones and one that is not stored
MrIds(st) == {0} \cup {st.mrs[i].id : i \in 1..Len(st.mrs)}

Init ==
    /\ store = init_monorepo
    /\ last = [n |-> 0, pre |-> init_monorepo, l |-> Idle]
    /\ procs = [p \in Procs |-> Idle]
    /\ mq = NoMq
    /\ libra = NoLibra

\* a whole call, from its first storage call to its return or panic
Call(l) ==
    /\ last.n < MaxOps
    /\ LET r == Run(store, l)
       IN /\ store' = r.st
          /\ last' = [n |-> last.n + 1, pre |-> store, l |-> r.l]
    /\ UNCHANGED <<procs, mq, libra>>

Unpack == \E path \in PathSet, push \in Pushes :
              \E from_hash \in FromHashes(store, path) :
                  Call(UnpackStart(path, from_hash, push))

HeadHash == \E path \in PathSet : Call(HeadHashStart(path))

MergeMr == \E mr_id \in MrIds(store) : Call(MergeStart(mr_id))

Next == Unpack \/ HeadHash \/ MergeMr

Spec == Init /\ [][Next]_vars

(* ------------------------- concurrent callers ------------------------- *)

\* the paths the concurrent callers work on
ConcPaths == {<<"x">>, <<"x", "z">>}

\* the store after head_hash(path) and a first push to path from the
\* advertised hash
Pushed(path) ==
    LET st1 == Run(init_monorepo, HeadHashStart(path)).st
        from_hash == Unwrap(get_ref(st1, path)).ref_commit_hash
        push == CHOOSE x \in Pushes : x.to_hash = Hex(1)
    IN Run(st1, UnpackStart(path, from_hash, push)).st

ConcInit ==
    /\ store \in {init_monorepo} \cup {Pushed(path) : path \in ConcPaths}
    /\ last = [n |-> 0, pre |-> store, l |-> Idle]
    /\ procs = [p \in Procs |-> Idle]
    /\ mq = NoMq
    /\ libra = NoLibra

\* a caller enters a handler; its first storage call is a later step
Start(p, l) ==
    /\ procs[p].pc \in FinalPcs
    /\ last.n < MaxConcOps
    /\ procs' = [procs EXCEPT ![p] = l]
    /\ last' = [last EXCEPT !.n = @ + 1]
    /\ UNCHANGED <<store, mq, libra>>

StartUnpack(p) == \E path \in ConcPaths, push \in Pushes :
                      \E from_hash \in FromHashes(store, path) :
                          Start(p, UnpackStart(path, from_hash, push))

StartHeadHash(p) == \E path \in ConcPaths : Start(p, HeadHashStart(path))

StartMergeMr(p) == \E mr_id \in MrIds(store) : Start(p, MergeStart(mr_id))

\* the call of p runs up to and including its next storage call
StepCall(p) ==
    /\ procs[p].pc \notin FinalPcs
    /\ LET r == Step(store, procs[p])
       IN /\ store' = r.st
          /\ procs' = [procs EXCEPT ![p] = r.l]
    /\ UNCHANGED <<last, mq, libra>>

\* the future of the call is dropped at a suspension point
Cancel(p) ==
    /\ procs[p].pc \notin FinalPcs
    /\ procs' = [procs EXCEPT ![p].pc = "cancelled"]
    /\ UNCHANGED <<store, last, mq, libra>>

ConcNext == \E p \in Procs :
                StartUnpack(p) \/ StartHeadHash(p) \/ StartMergeMr(p) \/ StepCall(p) \/ Cancel(p)

SpecConc == ConcInit /\ [][ConcNext]_vars

(* ------------------------ full_pack and writers ----------------------- *)

StartFullPack(p) == Start(p, FullPackStart)

PackNext == \E p \in Procs :
                StartFullPack(p) \/ StartUnpack(p) \/ StartMergeMr(p) \/ StepCall(p)

\* full_pack interleaved with unpack and merge_mr at their storage calls
SpecPack == ConcInit /\ [][PackNext]_vars

(* ------------------------- every entry point -------------------------- *)

\* the directories the calls of SpecAll work on
AllPaths == {RootPath, <<"x">>, <<"x", "y">>}

\* the files and directories created
FileInfos ==
    {CreateFileInfo(path, "k", is_directory, "k") :
         path \in AllPaths, is_directory \in BOOLEAN}

\* the pushes of SpecAll: those of one commit
AllPushes == {push \in Pushes : CommitCount(push.pack) = 1}

AllUnpack == \E path \in AllPaths, push \in AllPushes :
                 \E from_hash \in FromHashes(store, path) :
                     Call(UnpackStart(path, from_hash, push))

AllHeadHash == \E path \in AllPaths : Call(HeadHashStart(path))

UpdateRefs == Call(UpdateRefsStart)

CreateMonorepoFile == \E file_info \in FileInfos : Call(CreateStart(file_info))

AllNext == AllUnpack \/ AllHeadHash \/ MergeMr \/ UpdateRefs \/ CreateMonorepoFile

\* head_hash, unpack, update_refs, merge_mr and create_monorepo_file called
\* one after another
SpecAll == Init /\ [][AllNext]_vars

(* --------------------------- path resolution -------------------------- *)

\* the paths resolved: directories, missing names, and names of blobs
ResolvePaths ==
    {RootPath, <<"x">>, <<"x", "y">>, <<"x", "y", "z">>, <<"x", "z">>, <<"n">>,
     <<"x", "n">>, <<"f">>, <<"f", "q">>, <<"x", "y", "z", "c">>}

ResolveHeadHash == \E path \in ResolvePaths : Call(HeadHashStart(path))

SearchTreeByPath == \E path \in ResolvePaths : Call(SearchStart(path))

ResolveNext == ResolveHeadHash \/ SearchTreeByPath

\* head_hash and search_tree_by_path called one after another on the
\* initial monorepo or after a first push
SpecResolve == ConcInit /\ [][ResolveNext]_vars

(* --------------------------- the message queue ------------------------ *)

MqInit ==
    /\ store = init_monorepo
    /\ last = [n |-> 0, pre |-> init_monorepo, l |-> Idle]
    /\ procs = [p \in Procs |-> Idle]
    /\ mq \in {MqUnset(None)} \cup {MqUnset(Some(id)) : id \in 1..MaxLatest}
    /\ libra = NoLibra

InitMq ==
    /\ ~mq.set
    /\ mq' = init_mq(mq)
    /\ UNCHANGED <<store, last, procs, libra>>

\* a thread enters send and takes its id from the counter
SendFetch(p) ==
    /\ mq.set /\ mq.senders[p].pc = "idle" /\ mq.sends < MaxSends
    /\ mq' = fetch_add(mq, p)
    /\ UNCHANGED <<store, last, procs, libra>>

\* the thread puts its message into the channel
SendMessage(p) ==
    /\ mq.senders[p].pc = "send"
    /\ mq' = sender_send(mq, p)
    /\ UNCHANGED <<store, last, procs, libra>>

\* a thread asks for the queue before init_mq has set it
GetMqUnset(p) ==
    /\ ~mq.set /\ mq.senders[p].pc = "idle"
    /\ mq' = get_mq(mq, p)
    /\ UNCHANGED <<store, last, procs, libra>>

\* the event loop takes the next message of the channel and caches it
Recv ==
    /\ mq.set /\ ~IsSome(mq.loop_msg) /\ mq.channel # <<>>
    /\ mq' = recv(mq)
    /\ UNCHANGED <<store, last, procs, libra>>

\* the event loop hands the message to a worker
Spawn ==
    /\ IsSome(mq.loop_msg)
    /\ mq' = rt_spawn(mq)
    /\ UNCHANGED <<store, last, procs, libra>>

MqNext ==
    InitMq \/ Recv \/ Spawn \/ \E p \in Procs : GetMqUnset(p) \/ SendFetch(p) \/ SendMessage(p)

SpecMq == MqInit /\ [][MqNext]_vars

\* the event loop is a task of its own that is never cancelled, and a
\* sender runs from fetch_add to sender.send without suspending
SpecMqLive ==
    /\ SpecMq
    /\ WF_vars(Recv) /\ WF_vars(Spawn)
    /\ \A p \in Procs : WF_vars(SendMessage(p))

(* -------------------------- concurrent merges ------------------------- *)

\* the directories merged into, neither inside the other
MergePaths == <<<<"x">>, <<"y">>>>

\* the push to MergePaths[i]: one commit, with the tree T1 or T2
MergePush(i) ==
    [to_hash |-> Hex(i),
     pack |-> IF i = 1
              THEN <<CommitEntry(PushedCommit(1, T1, <<>>)), TreeEntry(T1), BlobEntry("g")>>
              ELSE <<CommitEntry(PushedCommit(i, T2, <<>>)), TreeEntry(T2), BlobEntry("h")>>]

RECURSIVE OpenMrs(_)
\* the store after head_hash and a first push on each of the first k paths
\* of MergePaths: k Open MRs
OpenMrs(k) ==
    IF k = 0 THEN init_monorepo
    ELSE LET st1 == Run(OpenMrs(k - 1), HeadHashStart(MergePaths[k])).st
             from_hash == Unwrap(get_ref(st1, MergePaths[k])).ref_commit_hash
         IN Run(st1, UnpackStart(MergePaths[k], from_hash, MergePush(k))).st

MergeInit ==
    /\ store = OpenMrs(Len(MergePaths))
    /\ last = [n |-> 0, pre |-> store, l |-> Idle]
    /\ procs = [p \in Procs |-> Idle]
    /\ mq = NoMq
    /\ libra = NoLibra

MergeNext == \E p \in Procs : StartMergeMr(p) \/ StepCall(p)

\* merge_mr calls of concurrent callers interleaved at their storage calls
SpecMerge == MergeInit /\ [][MergeNext]_vars

(* ---------------------------- libra switch ---------------------------- *)

\* what the user types after --detach: a full hash, the start of one hash,
\* the start of two, and the start of none
DetachArgs ==
    {to_string(CommitA.hash), to_string(CommitB.hash), to_string(TreeD.hash),
     <<"c", "0">>, <<"d">>, <<"e">>, <<"f">>}

BranchArgs == {"master", "dev", "none"}

SwitchInit ==
    /\ store = init_monorepo
    /\ last = [n |-> 0, pre |-> init_monorepo, l |-> Idle]
    /\ procs = [p \in Procs |-> Idle]
    /\ mq = NoMq
    /\ libra \in {[NoLibra EXCEPT !.status = s] : s \in {"clean", "unstaged", "staged"}}

Switched(args) ==
    /\ libra.n < MaxSwitches
    /\ libra' = execute(libra, args)
    /\ UNCHANGED <<store, last, procs, mq>>

SwitchDetach == \E branch \in {None} \cup {Some(a) : a \in DetachArgs} :
                    Switched(SwitchArgs(branch, TRUE))

SwitchBranch == \E name \in BranchArgs : Switched(SwitchArgs(Some(name), FALSE))

SwitchNext == SwitchDetach \/ SwitchBranch

\* switch commands run one after another in one repository
SpecSwitch == SwitchInit /\ [][SwitchNext]_vars

(* ------------------------------- claims ------------------------------- *)

\* the last call of Spec, run to its end, and the store it started from
L == last.l
Pre == last.pre

RECURSIVE Walk(_, _, _)
\* the id of the tree reached from tree_id along path through entries of
\* mode Tree, None when a component is missing or the tree is not stored
Walk(st, tree_id, path) ==
    IF path = <<>> THEN Some(tree_id)
    ELSE LET t == get_tree_by_hash(st, tree_id)
         IN IF ~IsSome(t) THEN None
            ELSE LET items == Unwrap(t).tree_items
                     item == find(items, {i \in 1..Len(items) :
                                 items[i].name = Head(path) /\ items[i].mode = "Tree"})
                 IN IF IsSome(item) THEN Walk(st, Unwrap(item).id, Tail(path)) ELSE None

RootRef(st) == Unwrap(get_ref(st, RootPath))

\* merge_mr has returned a result with result = true
MergeSucceeded == L.op = "merge_mr" /\ L.pc = "done" /\ L.ret.result

\* C2: after a successful merge_mr of an MR at a non-root path p, walking p
\* from the root tree of the "/" ref reaches the tree of the commit
\* mr.to_hash, and the root-tree entries not on p are unchanged.
C2_MergeInstallsSubtree ==
    (MergeSucceeded /\ L.mr.path # RootPath) =>
        LET p == L.mr.path
            c_mr == Unwrap(get_commit_by_hash(store, L.mr.to_hash))
            old == Unwrap(get_tree_by_hash(Pre, RootRef(Pre).ref_tree_hash)).tree_items
            new == get_tree_by_hash(store, RootRef(store).ref_tree_hash)
        IN /\ Walk(store, RootRef(store).ref_tree_hash, p) = Some(c_mr.tree_id)
           /\ IsSome(new)
           /\ Len(Unwrap(new).tree_items) = Len(old)
           /\ \A i \in 1..Len(old) :
                  old[i].name # p[1] => Unwrap(new).tree_items[i] = old[i]

\* C3: after a successful merge_mr at any path, the "/" ref names a newly
\* persisted commit whose only parent is the previous "/" commit, whose tree
\* is the ref's new tree, and whose author, committer and message are those
\* of the commit mr.to_hash.
C3_RootRefAdvances ==
    MergeSucceeded =>
        LET new == RootRef(store)
            c_mr == Unwrap(get_commit_by_hash(store, L.mr.to_hash))
            c_root == get_commit_by_hash(store, new.ref_commit_hash)
        IN /\ new.ref_commit_hash # RootRef(Pre).ref_commit_hash
           /\ ~IsSome(get_commit_by_hash(Pre, new.ref_commit_hash))
           /\ IsSome(c_root)
           /\ Unwrap(c_root).parent_commit_ids = <<RootRef(Pre).ref_commit_hash>>
           /\ Unwrap(c_root).tree_id = new.ref_tree_hash
           /\ Unwrap(c_root).author = c_mr.author
           /\ Unwrap(c_root).committer = c_mr.committer
           /\ Unwrap(c_root).message = c_mr.message

RefPaths(st) == {st.refs[i].path : i \in 1..Len(st.refs)}

\* q is a directory above p other than "/"
ProperAncestor(q, p) == q # RootPath /\ Len(q) < Len(p) /\ IsPrefix(q, p)

\* C4: after a successful merge_mr of an MR at a non-root path p there is no
\* ref at p, none below p, and none at a directory above p other than "/".
C4_NoStaleRefs ==
    (MergeSucceeded /\ L.mr.path # RootPath) =>
        \A q \in RefPaths(store) :
            ~IsPrefix(L.mr.path, q) /\ ~ProperAncestor(q, L.mr.path)

\* a successful merge at p that started with a ref at p and a ref at a
\* directory above p
C4_Witness ==
    /\ MergeSucceeded /\ L.mr.path # RootPath
    /\ L.mr.path \in RefPaths(Pre)
    /\ \E q \in RefPaths(Pre) : ProperAncestor(q, L.mr.path)

\* merge_mr's precondition on the store it starts from
MergeAllowed(st, mr_id) ==
    LET mr == get_open_mr_by_id(st, mr_id)
    IN /\ IsSome(mr)
       /\ IsSome(get_ref(st, Unwrap(mr).path))
       /\ Unwrap(mr).from_hash = Unwrap(get_ref(st, Unwrap(mr).path)).ref_commit_hash

\* C5: merge_mr changes an MR's status only when the MR is Open and its
\* from_hash is the commit of the ref at its path; in every other case it
\* returns a failed result as a value and leaves the store as it was.
C5_MergeRejects ==
    (L.op = "merge_mr" /\ ~MergeAllowed(Pre, L.mr_id)) =>
        /\ L.pc = "done"
        /\ ~L.ret.result
        /\ L.ret.err_message \in {"Invalid mr id", "ref hash conflict"}
        /\ store = Pre

\* the open MR of the pushed path in the store the last call started from
PreMr == get_open_mr(Pre, L.path)

\* the rows of the classification table of unpack
Fresh == L.op = "unpack" /\ ~IsSome(PreMr)
Conflict == L.op = "unpack" /\ IsSome(PreMr) /\ Unwrap(PreMr).from_hash # L.from_hash
ForceUpdate ==
    /\ L.op = "unpack" /\ IsSome(PreMr)
    /\ Unwrap(PreMr).from_hash = L.from_hash /\ Unwrap(PreMr).to_hash # L.to_hash

\* every entry of the pack is in the table of its type
Ingested(st, pack) ==
    \A i \in 1..Len(pack) :
        CASE pack[i].obj_type = "Commit" -> \E c \in st.commits : c = pack[i].obj
          [] pack[i].obj_type = "Tree" -> \E t \in st.trees : t.tree_id = pack[i].id
          [] OTHER -> pack[i].id \in st.blobs

ObjectsUnchanged ==
    store.commits = Pre.commits /\ store.trees = Pre.trees /\ store.blobs = Pre.blobs

\* the MR table is the one before the call but for the row of mr
OnlyMrChanged(mr) ==
    /\ Len(store.mrs) = Len(Pre.mrs)
    /\ \A i \in 1..Len(Pre.mrs) :
           store.mrs[i] = IF Pre.mrs[i].id = mr.id THEN mr ELSE Pre.mrs[i]

Comment(mr_id, text) ==
    [mr_id |-> mr_id, user_id |-> 0, conv_type |-> "Comment", comment |-> text]

\* C7: when an ingested push (Fresh or Force-update) holds more than one
\* commit, then after unpack returns the stored MR of the path is Closed and
\* has the conversation "closed due to multi commit detected", and all
\* entries of the push are stored.
C7_MultiCommitCloses ==
    ((Fresh \/ ForceUpdate) /\ L.pc = "done" /\ CommitCount(L.pack_file) > 1) =>
        /\ \E i \in 1..Len(store.mrs) :
               store.mrs[i].id = L.mr.id /\ store.mrs[i].status = "Closed"
        /\ \E i \in 1..Len(store.convs) :
               store.convs[i] =
                   Comment(L.mr.id, <<"Mega closed MR due to multi commit detected">>)
        /\ Ingested(store, L.pack_file)

\* C8: in the Conflict case unpack ingests nothing, the stored MR becomes
\* Closed with from_hash and to_hash unchanged, exactly one conversation
\* "closed due to conflict" is appended, and unpack returns success.
C8_ConflictCloses ==
    Conflict =>
        /\ L.pc = "done" /\ L.ret = "Ok"
        /\ ObjectsUnchanged
        /\ OnlyMrChanged([Unwrap(PreMr) EXCEPT !.status = "Closed"])
        /\ store.convs = Append(Pre.convs,
               Comment(Unwrap(PreMr).id, <<"Mega closed MR due to conflict">>))

\* a push has met an Open MR with another from_hash and unpack has returned
C8_Witness == Conflict /\ L.pc = "done" /\ L.pack_file # <<>>

\* the conversation of a force update: the first 6 characters of each hash
ForceUpdated(mr_id, old_to, new_to) ==
    Comment(mr_id, <<"Mega updated the mr automatic from", SubSeq(old_to[2], 1, 6),
                     "to", SubSeq(new_to[2], 1, 6)>>)

ForceUpdateDone ==
    /\ L.pc = "done"
    /\ OnlyMrChanged([Unwrap(PreMr) EXCEPT !.to_hash = L.to_hash])
    /\ Unwrap(PreMr).status = "Open"
    /\ Ingested(store, L.pack_file)
    /\ store.convs = Append(Pre.convs,
           ForceUpdated(Unwrap(PreMr).id, Unwrap(PreMr).to_hash, L.to_hash))

\* C9 as stated: in the Force-update case, after unpack the stored MR is
\* still Open with from_hash unchanged and to_hash the pushed one, all
\* entries are ingested, and exactly one conversation is appended, with the
\* first 6 characters of the old and of the new to_hash.
C9_ForceUpdateAsStated == ForceUpdate => ForceUpdateDone

\* C9 amended: the same for a Force-update push that holds at most one commit.
C9_ForceUpdate == (ForceUpdate /\ CommitCount(L.pack_file) <= 1) => ForceUpdateDone

\* a force update by a push of one commit; the hashes are longer than 6
\* characters and differ within the first 6
C9_Witness ==
    /\ ForceUpdate /\ CommitCount(L.pack_file) = 1 /\ L.pc = "done"
    /\ Len(L.to_hash[2]) > 6
    /\ SubSeq(Unwrap(PreMr).to_hash[2], 1, 6) # SubSeq(L.to_hash[2], 1, 6)

FreshDone ==
    /\ L.pc = "done"
    /\ Ingested(store, L.pack_file)
    /\ Len(store.mrs) = Len(Pre.mrs) + 1
    /\ SubSeq(store.mrs, 1, Len(Pre.mrs)) = Pre.mrs
    /\ LET mr == store.mrs[Len(store.mrs)]
       IN /\ mr.status = "Open" /\ mr.path = L.path
          /\ mr.from_hash = L.from_hash /\ mr.to_hash = L.to_hash
          /\ \A i \in 1..Len(Pre.mrs) : Pre.mrs[i].id # mr.id
    /\ store.convs = Pre.convs

\* C10 as stated: in the Fresh case unpack ingests all entries and stores
\* exactly one new MR, Open, of the pushed path, from_hash and to_hash, with
\* no conversation; the MRs stored before are left as they are.
C10_FreshAsStated == Fresh => FreshDone

\* C10 amended: the same for a Fresh push that holds at most one commit.
C10_Fresh == (Fresh /\ CommitCount(L.pack_file) <= 1) => FreshDone

\* a fresh push of one commit to a path whose earlier MR is Closed
C10_Witness ==
    /\ Fresh /\ CommitCount(L.pack_file) = 1 /\ L.pc = "done"
    /\ \E i \in 1..Len(Pre.mrs) : Pre.mrs[i].path = L.path /\ Pre.mrs[i].status = "Closed"

\* C1: in every reachable state, with concurrent unpack calls on one path
\* interleaved at their storage calls, the MR table holds at most one Open
\* MR for any path.
C1_OneOpenMrPerPath ==
    \A i, j \in 1..Len(store.mrs) :
        (/\ store.mrs[i].status = "Open" /\ store.mrs[j].status = "Open"
         /\ store.mrs[i].path = store.mrs[j].path) => i = j

\* the store after the whole merge of the MR mr_id, started from Pre
FullyMerged(mr_id) ==
    LET mr == find(store.mrs, {i \in 1..Len(store.mrs) : store.mrs[i].id = mr_id})
    IN /\ IsSome(mr) /\ Unwrap(mr).status = "Merged"
       /\ \E i \in 1..Len(store.convs) :
              store.convs[i].mr_id = mr_id /\ store.convs[i].conv_type = "Merged"
       /\ RootRef(store).ref_commit_hash # RootRef(Pre).ref_commit_hash
       /\ IsSome(get_commit_by_hash(store, RootRef(store).ref_commit_hash))
       /\ IsSome(get_commit_by_hash(store, Unwrap(mr).to_hash))
       /\ Walk(store, RootRef(store).ref_tree_hash, Unwrap(mr).path)
              = Some(Unwrap(get_commit_by_hash(store, Unwrap(mr).to_hash)).tree_id)
       /\ \A q \in RefPaths(store) : ~IsPrefix(Unwrap(mr).path, q)

\* C6: a merge_mr that is cancelled or fails at a storage call leaves the
\* store either as it was before the merge or fully merged (here for a
\* merge that is the only call made).
C6_MergeAllOrNothing ==
    \A p \in Procs :
        (/\ last.n = 1 /\ procs[p].op = "merge_mr"
         /\ procs[p].pc \in {"cancelled", "panic"}) =>
            (store = Pre \/ FullyMerged(procs[p].mr_id))

\* an MR that is Closed or Merged
Terminal(mr) == mr.status \in {"Closed", "Merged"}

\* C11: Closed and Merged are terminal: once a stored MR is Closed or Merged,
\* no later step of an unpack or merge_mr call changes its status, from_hash
\* or to_hash.
C11_TerminalStays ==
    [][\A i \in 1..Len(store.mrs) :
           Terminal(store.mrs[i]) =>
               /\ Len(store'.mrs) >= i
               /\ store'.mrs[i].id = store.mrs[i].id
               /\ store'.mrs[i].status = store.mrs[i].status
               /\ store'.mrs[i].from_hash = store.mrs[i].from_hash
               /\ store'.mrs[i].to_hash = store.mrs[i].to_hash]_vars

\* C12: head_hash is idempotent: when a head_hash call follows a head_hash
\* call for the same path with nothing written in between, it returns the
\* same refs (name, commit hash, default-branch flag) and writes nothing.
C12_HeadHashIdempotent ==
    [][(/\ last.l.op = "head_hash" /\ last.l.pc = "done"
        /\ last'.l.op = "head_hash" /\ last'.l.path = last.l.path) =>
           /\ last'.l.pc = "done"
           /\ last'.l.ret = last.l.ret
           /\ store' = store]_vars

\* a head_hash call for a subpath has found the ref an earlier head_hash
\* call stored, returned it and written nothing
C12_Witness ==
    /\ L.op = "head_hash" /\ L.pc = "done" /\ L.path # RootPath
    /\ L.ret # <<>> /\ store = Pre
    /\ L.ret[1].ref_hash = Unwrap(get_ref(Pre, L.path)).ref_commit_hash

\* the tree at path under the root tree of the "/" ref, when every component
\* names an entry of mode Tree and the trees on the way are stored
Subtree(st, path) ==
    LET id == Walk(st, RootRef(st).ref_tree_hash, path)
    IN IF IsSome(id) THEN get_tree_by_hash(st, Unwrap(id)) ELSE None

\* the last call was head_hash for a path without a ref
HeadNoRef == L.op = "head_hash" /\ ~IsSome(get_ref(Pre, L.path))

\* C13: when no ref exists at subpath and the subpath is reachable from the
\* root tree, head_hash stores a commit with no parents whose tree is the
\* subtree, saves a ref at subpath with that commit and that tree, and
\* returns one default-branch ref naming the commit; when a ref exists at
\* subpath it returns that ref and writes nothing.
C13_HeadHashSynthesizes ==
    /\ (HeadNoRef /\ IsSome(Subtree(Pre, L.path))) =>
           /\ L.pc = "done" /\ Len(L.ret) = 1
           /\ LET c == get_commit_by_hash(store, L.ret[1].ref_hash)
                  t == Unwrap(Subtree(Pre, L.path))
              IN /\ IsSome(c)
                 /\ Unwrap(c).parent_commit_ids = <<>>
                 /\ Unwrap(c).tree_id = t.id
                 /\ store.commits = Pre.commits \cup {Unwrap(c)}
                 /\ store.refs = Append(Pre.refs, [path |-> L.path,
                                                   ref_commit_hash |-> Unwrap(c).id,
                                                   ref_tree_hash |-> t.id])
                 /\ L.ret[1].default_branch
                 /\ L.ret[1].ref_name = MEGA_BRANCH_NAME
           /\ store.trees = Pre.trees /\ store.blobs = Pre.blobs
           /\ store.mrs = Pre.mrs /\ store.convs = Pre.convs
    /\ (L.op = "head_hash" /\ IsSome(get_ref(Pre, L.path))) =>
           /\ L.pc = "done" /\ Len(L.ret) = 1
           /\ L.ret[1].ref_hash = Unwrap(get_ref(Pre, L.path)).ref_commit_hash
           /\ store = Pre

\* head_hash has made the ref of a directory two levels below the root
C13_Witness ==
    /\ HeadNoRef /\ IsSome(Subtree(Pre, L.path)) /\ Len(L.path) >= 2
    /\ L.pc = "done" /\ IsSome(get_ref(store, L.path))
    /\ ~IsSome(get_commit_by_hash(Pre, L.ret[1].ref_hash))

\* C14: when no ref exists at subpath and some component of the subpath has
\* no matching entry that is a tree, head_hash returns an empty ref list and
\* leaves the store unchanged.
C14_HeadHashUnreachable ==
    (HeadNoRef /\ ~IsSome(Subtree(Pre, L.path))) =>
        /\ L.pc = "done" /\ L.ret = <<>>
        /\ store = Pre

\* the number of refs with path "/"
RootRefCount(st) == Cardinality({i \in 1..Len(st.refs) : st.refs[i].path = RootPath})

\* C15: every state reached by head_hash, unpack, update_refs, merge_mr and
\* create_monorepo_file calls holds exactly one ref with path "/".
C15_OneRootRef == RootRefCount(store) = 1

\* a merge has deleted the ref of a directory above the merged path and the
\* refs at and below it
C15_Witness ==
    /\ MergeSucceeded /\ L.mr.path # RootPath
    /\ \E q \in RefPaths(Pre) : ProperAncestor(q, L.mr.path) /\ q \notin RefPaths(store)
    /\ L.mr.path \notin RefPaths(store)

\* the senders that have taken an id and not yet sent their message
Holding == {p \in Procs : mq.senders[p].pc = "send"}

\* the ids handed out so far: those of the messages received, of the
\* messages in the channel and of the senders that hold one
HandedOut ==
    {mq.mcache[i].id : i \in 1..Len(mq.mcache)}
        \cup {mq.channel[i].id : i \in 1..Len(mq.channel)}
        \cup {mq.senders[p].id : p \in Holding}

\* the id of the first message: last persisted id + 1, or 1
FirstId == IF IsSome(mq.latest) THEN Unwrap(mq.latest) + 1 ELSE 1

\* C16: the ids handed out to any number of concurrent senders are pairwise
\* distinct and are the gap-free run that starts at last_persisted_id + 1
\* (1 when no message is persisted).
C16_SequenceIds ==
    LET n == Len(mq.mcache) + Len(mq.channel) + Cardinality(Holding)
    IN /\ n = mq.sends
       /\ Cardinality(HandedOut) = n
       /\ HandedOut = FirstId..(FirstId + n - 1)

\* two senders hold ids at once after a message has gone through, on a queue
\* that started from a persisted id
C16_Witness ==
    /\ mq.set /\ IsSome(mq.latest)
    /\ Cardinality(Holding) >= 2
    /\ Len(mq.mcache) + Len(mq.channel) >= 1

\* the last call has changed the commit or the tree of the "/" ref
RootRefChanged ==
    \/ RootRef(store).ref_commit_hash # RootRef(Pre).ref_commit_hash
    \/ RootRef(store).ref_tree_hash # RootRef(Pre).ref_tree_hash

SentCount(l) ==
    Cardinality(l.sent.commits) + Cardinality(l.sent.trees)
        + Cardinality(l.sent.blobs) + Cardinality(l.sent.tags)

\* C18: in every execution of full_pack, also with an unpack or merge_mr
\* writing objects while it runs, the number of entries sent to the encoder
\* is the object count the encoder was initialized with.
C18_PackCountMatches ==
    \A p \in Procs :
        (procs[p].op = "full_pack" /\ procs[p].pc = "done") =>
            SentCount(procs[p]) = procs[p].obj_num

RECURSIVE Ancestors(_, _, _)
\* the trees at the first k proper prefixes of path, from the root tree down
Ancestors(st, path, k) ==
    IF k = 0 THEN <<>>
    ELSE Append(Ancestors(st, path, k - 1), Unwrap(Subtree(st, SubSeq(path, 1, k - 1))))

\* C19: for every resolvable path p, search_tree_by_path returns (ancestors,
\* target) where target is the tree at p and ancestors is the chain of
\* parent trees from the root tree down to the parent of p, without target;
\* for p = "/" ancestors is empty and target is the root tree.
C19_SearchReturnsAncestors ==
    (L.op = "search_tree_by_path" /\ IsSome(Subtree(Pre, L.search_path))) =>
        /\ L.pc = "done" /\ L.ret.ok
        /\ L.ret.search_tree = Unwrap(Subtree(Pre, L.search_path))
        /\ L.ret.update_tree = Ancestors(Pre, L.search_path, Len(L.search_path))

RECURSIVE Unresolved(_, _, _)
\* why path cannot be walked from the tree tree_id: "PathNotDirectory" when
\* the first component that is not a tree names a Blob entry, "PathNotFound"
\* when it names no entry, "" when every component names a tree
Unresolved(st, tree_id, path) ==
    IF path = <<>> THEN ""
    ELSE LET t == get_tree_by_hash(st, tree_id)
         IN IF ~IsSome(t) THEN "PathNotFound"
            ELSE LET items == Unwrap(t).tree_items
                     named == Named(items, Head(path))
                     trees == {i \in named : items[i].mode = "Tree"}
                 IN IF named = {} THEN "PathNotFound"
                    ELSE IF trees = {} THEN "PathNotDirectory"
                    ELSE Unresolved(st, Unwrap(find(items, trees)).id, Tail(path))

\* the last call resolved a path from the root tree of the "/" ref
Resolving ==
    \/ L.op = "search_tree_by_path"
    \/ L.op = "head_hash" /\ ~IsSome(get_ref(Pre, L.path))

ResolvedPath == IF L.op = "head_hash" THEN L.path ELSE L.search_path

\* C20: when a path component names an entry that is a Blob, path resolution
\* ends with an error value returned to the caller (search_tree_by_path) or
\* with a returned list (head_hash), not with a crash; a component that
\* names no entry ends search_tree_by_path with an error value. In both
\* cases the store is unchanged.
C20_ResolutionFailsByValue ==
    LET why == Unresolved(Pre, RootRef(Pre).ref_tree_hash, ResolvedPath)
    IN /\ (Resolving /\ why = "PathNotDirectory") =>
              /\ L.pc = "done" /\ store = Pre
              /\ L.op = "search_tree_by_path" => ~L.ret.ok
       /\ (L.op = "search_tree_by_path" /\ why = "PathNotFound") =>
              L.pc = "done" /\ ~L.ret.ok /\ store = Pre

\* every caller has returned from a successful merge_mr, each of another MR
AllMerged ==
    /\ \A p \in Procs :
           procs[p].op = "merge_mr" /\ procs[p].pc = "done" /\ procs[p].ret.result
    /\ \A p, q \in Procs : procs[p].mr_id = procs[q].mr_id => p = q

\* C21: once Open MRs on distinct, non-nested paths have all been merged
\* successfully, under any interleaving of the storage calls of the
\* concurrent merge_mr calls, the tree of the "/" ref holds every merged
\* subtree at its path.
C21_NoLostMerge ==
    AllMerged =>
        \A p \in Procs :
            Walk(store, RootRef(store).ref_tree_hash, procs[p].mr.path)
                = Some(Unwrap(get_commit_by_hash(store, procs[p].mr.to_hash)).tree_id)

\* an unpack call has returned and the next call applies the same push
\* (path, from_hash, to_hash and pack) again
SamePushAgain ==
    /\ last.l.op = "unpack" /\ last.l.pc = "done"
    /\ last'.l.op = "unpack"
    /\ last'.l.path = last.l.path
    /\ last'.l.from_hash = last.l.from_hash
    /\ last'.l.to_hash = last.l.to_hash
    /\ last'.l.pack_file = last.l.pack_file

\* C22 as stated: applying the same push a second time immediately after the
\* first leaves the MR table, the conversations and the objects as they
\* were after the first application, whatever case the first fell into
\* (Fresh, No-op, Force-update or Conflict).
C22_PushIdempotentAsStated ==
    [][SamePushAgain => (last'.l.pc = "done" /\ store' = store)]_vars

\* C22 amended: the same when the first application was Fresh, No-op or
\* Force-update; the repeated push then meets the Open MR with its own
\* from_hash and to_hash, ingests nothing and appends no conversation.
C22_PushIdempotent ==
    [][(SamePushAgain /\ ~Conflict) => (last'.l.pc = "done" /\ store' = store)]_vars

\* a push of two commits has been applied to the Open MR that already has
\* its from_hash and to_hash, and nothing was written
C22_Witness ==
    /\ L.op = "unpack" /\ L.pc = "done" /\ IsSome(PreMr)
    /\ Unwrap(PreMr).from_hash = L.from_hash /\ Unwrap(PreMr).to_hash = L.to_hash
    /\ CommitCount(L.pack_file) > 1
    /\ store = Pre

\* the ids a message of the model can carry
MsgIds == 1..(MaxLatest + MaxSends)

Ids(msgs) == {msgs[i].id : i \in 1..Len(msgs)}

\* no message is in msgs twice
Once(msgs) == Cardinality(Ids(msgs)) = Len(msgs)

\* C23: once the dispatcher is started, every message accepted by send is
\* eventually received by the dispatcher, stored in the message cache and
\* then handed to a worker, exactly once each: none is dropped and none is
\* handed over twice.
C23_EveryMessageDispatched ==
    /\ [](/\ Once(mq.mcache) /\ Once(mq.spawned)
          /\ Ids(mq.spawned) \subseteq Ids(mq.mcache)
          /\ Ids(mq.mcache) \cap Ids(mq.channel) = {})
    /\ \A id \in MsgIds : (id \in Ids(mq.channel)) ~> (id \in Ids(mq.spawned))

\* every message of MaxSends sends, two of them in the channel at once
\* earlier on, has been cached and handed to a worker
C23_Witness ==
    /\ mq.sends = MaxSends /\ Len(mq.spawned) = MaxSends /\ mq.channel = <<>>
    /\ Ids(mq.spawned) = Ids(mq.mcache)

\* C25: with several threads calling send concurrently, the dispatcher
\* receives the messages in strictly increasing order of their ids: a
\* message with a smaller id is never dequeued after one with a larger id.
C25_ReceivedInIdOrder ==
    \A i, j \in 1..Len(mq.mcache) : i < j => mq.mcache[i].id < mq.mcache[j].id

\* C24: in every reachable state, with two head_hash calls for one subpath
\* interleaved at their storage calls, at most one ref exists per path.
C24_OneRefPerPath ==
    \A i, j \in 1..Len(store.refs) :
        store.refs[i].path = store.refs[j].path => i = j

\* C26: in every reachable state, at every suspension point of head_hash
\* and merge_mr, each stored ref names a commit that is stored and a tree
\* that is stored.
C26_RefsNameStoredObjects ==
    \A i \in 1..Len(store.refs) :
        /\ IsSome(get_commit_by_hash(store, store.refs[i].ref_commit_hash))
        /\ IsSome(get_tree_by_hash(store, store.refs[i].ref_tree_hash))

\* the last command was switch --detach <arg> on a clean worktree
Detach ==
    /\ libra.n > 0 /\ libra.l.args.detach /\ IsSome(libra.l.args.branch)
    /\ libra.status = "clean"

\* C27: switch --detach <arg> on a clean worktree: when arg matches exactly
\* one stored object and that object is a commit, HEAD becomes detached at
\* that commit (name unset, commit = its hash); when arg matches no object,
\* several objects or one object that is not a commit, an error message is
\* reported, the command returns without crashing and HEAD is unchanged.
C27_SwitchDetach ==
    Detach =>
        LET found == search(Unwrap(libra.l.args.branch))
        IN /\ libra.l.pc = "done"
           /\ IF \E h \in found : found = {h} /\ is_object_type(h, "Commit")
              THEN \A h \in found :
                       libra.head = [name |-> None, commit |-> Some(to_string(h))]
              ELSE libra.l.err # <<>> /\ libra.head = libra.pre

====
